---- MODULE Spec2Model ----
(***************************************************************************)
(* Model of src/services/zkTecoFingerprintBridge.py: the ctypes bridge to  *)
(* the ZKTeco fingerprint SDK (class ZKTecoFingerprintScanner) and the     *)
(* request dispatcher handle_request.                                      *)
(*                                                                         *)
(* The vendor library is the environment.  Every vendor function returns   *)
(* any value of its C return type that the bridge distinguishes; the       *)
(* vendor's own resources (SDK context, database handles, device handles)  *)
(* are tracked so that leaks are visible.  A Python bytes object is        *)
(* modelled by its length: the bridge never reads template contents.       *)
(* A library that passes the ZKFPM_Init check of _load_library exports the  *)
(* other functions, and a call into it returns: the except branches of the *)
(* methods, which only log and return the failure value, are not taken.    *)
(* A method is an operator from a threaded state                           *)
(*    [sc: scanner fields, vn: vendor resources, calls: vendor call log,   *)
(*     ret: the value returned]                                            *)
(* to the SET of states it can end in, one per combination of vendor       *)
(* return values; Bind sequences two such operators.                       *)
(***************************************************************************)
EXTENDS Integers, Sequences, FiniteSets, TLC

VARIABLES
  dll,      \* the file system: what loading each candidate path does
  probed,   \* number of candidate paths the constructor tried to load
  scanner,  \* fields of the ZKTecoFingerprintScanner last operated on
  vendor,   \* resources held inside the vendor library (process-wide)
  calls,    \* vendor functions called by the last operation, in order
  result,   \* what the last operation returned (or the exception it raised)
  op,       \* the last operation and its arguments
  nops      \* number of operations performed so far

vars == <<dll, probed, scanner, vendor, calls, result, op, nops>>

----------------------------------------------------------------------------
(* Bounds of the model *)

\* handle_request calls made one after another in one process
MaxRequests == 3
\* public method calls made on one scanner instance
MaxOps == 4
\* longest 'template' string of a verify payload
MaxB64Len == 4

----------------------------------------------------------------------------
(* Program constants *)

ZKFP_ERR_OK == 0
ZKFP_ERR_TIMEOUT == 1
ZKFP_ERR_INVALID_PARAM == 2
max_template_size == 2048
MatchThreshold == 60
QualityEstimate == 95
MinSamples == 3

\* Python None for an object reference; a NULL c_void_p also reads as None
None == 0

Max(a, b) == IF a >= b THEN a ELSE b
Min(a, b) == IF a <= b THEN a ELSE b

Bind(S, F(_)) == UNION {F(s) : s \in S}
Ret(st, v) == [st EXCEPT !.ret = v]

----------------------------------------------------------------------------
(* Values the vendor functions may return *)

InitRets == {ZKFP_ERR_OK, ZKFP_ERR_TIMEOUT}
CountRets == {-1, 0, 1}
AcquireRets == {ZKFP_ERR_OK, ZKFP_ERR_TIMEOUT}
GenRegRets == {ZKFP_ERR_OK, ZKFP_ERR_INVALID_PARAM}
MatchRets == {-1, 0, MatchThreshold - 1, MatchThreshold, MatchThreshold + 1}
\* lengths the vendor may write to an output-length parameter
Lens == {0, 7, max_template_size + 1}
----------------------------------------------------------------------------
(* The vendor library (libzkfp.dll), seen through the ctypes call sites     *)

\* one step of the vendor call log: function, arguments, return value and
\* the length written through the output-length pointer (0 when there is none)
VCall(st, f, a, r, out, vn2) ==
  [st EXCEPT !.calls = Append(@, [f |-> f, a |-> a, r |-> r, out |-> out]),
             !.vn = vn2,
             !.ret = [r |-> r, out |-> out]]

\* a handle value the library has not handed out yet
Fresh(st) == st.vn.nh + 1

ZKFPM_Init(st) ==
  { VCall(st, "ZKFPM_Init", <<>>, r, 0,
          IF r = ZKFP_ERR_OK THEN [st.vn EXCEPT !.sdk = TRUE] ELSE st.vn)
    : r \in InitRets }

ZKFPM_DBInit(st) ==
  { VCall(st, "ZKFPM_DBInit", <<>>, None, 0, st.vn),
    VCall(st, "ZKFPM_DBInit", <<>>, Fresh(st), 0,
          [st.vn EXCEPT !.dbs = @ \cup {Fresh(st)}, !.nh = Fresh(st)]) }

ZKFPM_GetDeviceCount(st) ==
  { VCall(st, "ZKFPM_GetDeviceCount", <<>>, r, 0, st.vn) : r \in CountRets }

ZKFPM_OpenDevice(st, device_index) ==
  { VCall(st, "ZKFPM_OpenDevice", <<device_index>>, None, 0, st.vn),
    VCall(st, "ZKFPM_OpenDevice", <<device_index>>, Fresh(st), 0,
          [st.vn EXCEPT !.devs = @ \cup {Fresh(st)}, !.nh = Fresh(st)]) }

ZKFPM_CloseDevice(st, h) ==
  { VCall(st, "ZKFPM_CloseDevice", <<h>>, ZKFP_ERR_OK, 0,
          [st.vn EXCEPT !.devs = @ \ {h}]) }

ZKFPM_DBFree(st, h) ==
  { VCall(st, "ZKFPM_DBFree", <<h>>, ZKFP_ERR_OK, 0,
          [st.vn EXCEPT !.dbs = @ \ {h}]) }

ZKFPM_Terminate(st) ==
  { VCall(st, "ZKFPM_Terminate", <<>>, ZKFP_ERR_OK, 0,
          [st.vn EXCEPT !.sdk = FALSE]) }

\* on failure the length cell keeps the capacity the caller stored in it
ZKFPM_AcquireFingerprint(st, h) ==
  { VCall(st, "ZKFPM_AcquireFingerprint", <<h>>, ZKFP_ERR_OK, L, st.vn)
    : L \in Lens }
  \cup
  { VCall(st, "ZKFPM_AcquireFingerprint", <<h>>, r, max_template_size, st.vn)
    : r \in AcquireRets \ {ZKFP_ERR_OK} }

ZKFPM_GenRegTemplate(st, db, t1, t2, t3) ==
  { VCall(st, "ZKFPM_GenRegTemplate", <<db, t1, t2, t3>>, ZKFP_ERR_OK, L, st.vn)
    : L \in Lens }
  \cup
  { VCall(st, "ZKFPM_GenRegTemplate", <<db, t1, t2, t3>>, r, max_template_size,
          st.vn)
    : r \in GenRegRets \ {ZKFP_ERR_OK} }

ZKFPM_DBMatch(st, db, len1, len2) ==
  { VCall(st, "ZKFPM_DBMatch", <<db, len1, len2>>, r, 0, st.vn)
    : r \in MatchRets }

----------------------------------------------------------------------------
(* class ZKTecoFingerprintScanner                                          *)

\* candidate locations of libzkfp.dll, in probing order
search_paths == <<"System32", "ProgramFiles", "PATH", "ZKTecoSDK", "bridge">>

\* what ctypes.CDLL(path) followed by the ZKFPM_Init lookup can do
LoadOutcomes == {"ok", "nosym", "oserr"}

\* faulty variant: a DLL that loads is bound without the ZKFPM_Init check
RECURSIVE load_from_unverified(_, _)
load_from_unverified(fs, i) ==
  IF i > Len(search_paths) THEN [lib |-> None, probed |-> i - 1]
  ELSE IF fs[i] \in {"ok", "nosym"} THEN [lib |-> i, probed |-> i]
  ELSE load_from_unverified(fs, i + 1)

\* _load_library: the index of the first candidate that loads and exports
\* ZKFPM_Init (self.lib), None when there is none, and the candidates probed
RECURSIVE load_from(_, _)
load_from(fs, i) ==
  IF i > Len(search_paths) THEN [lib |-> None, probed |-> i - 1]
  ELSE IF fs[i] = "ok" THEN [lib |-> i, probed |-> i]
  ELSE load_from(fs, i + 1)

_load_library(fs) == load_from(fs, 1)

\* __init__
NewScanner(fs) ==
  [lib |-> _load_library(fs).lib,
   device_handle |-> None,
   db_handle |-> None,
   is_initialized |-> FALSE]

init(st) ==
  IF st.sc.lib = None THEN {Ret(st, FALSE)}
  ELSE Bind(ZKFPM_Init(st), LAMBDA s1 :
         IF s1.ret.r # ZKFP_ERR_OK THEN {Ret(s1, FALSE)}
         ELSE Bind(ZKFPM_DBInit(s1), LAMBDA s2 :
                LET s3 == [s2 EXCEPT !.sc.db_handle = s2.ret.r]
                IN  IF s3.sc.db_handle = None THEN {Ret(s3, FALSE)}
                    ELSE {Ret([s3 EXCEPT !.sc.is_initialized = TRUE], TRUE)}))

\* faulty variant: the guard forgets the initialized flag
get_device_count_uninitialized(st) ==
  IF st.sc.lib = None THEN {Ret(st, 0)}
  ELSE Bind(ZKFPM_GetDeviceCount(st), LAMBDA s1 : {Ret(s1, Max(0, s1.ret.r))})

get_device_count(st) ==
  IF st.sc.lib = None \/ ~st.sc.is_initialized THEN {Ret(st, 0)}
  ELSE Bind(ZKFPM_GetDeviceCount(st), LAMBDA s1 : {Ret(s1, Max(0, s1.ret.r))})

\* faulty variant: the device handle is kept after ZKFPM_CloseDevice
close_device_keeps_handle(st) ==
  IF st.sc.lib = None \/ st.sc.device_handle = None THEN {Ret(st, None)}
  ELSE Bind(ZKFPM_CloseDevice(st, st.sc.device_handle), LAMBDA s1 :
         {Ret(s1, None)})

\* a NULL handle is reported with two more device-count queries (diagnostics)
open_device(st, device_index) ==
  IF st.sc.lib = None \/ ~st.sc.is_initialized THEN {Ret(st, FALSE)}
  ELSE Bind(ZKFPM_OpenDevice(st, device_index), LAMBDA s1 :
         IF s1.ret.r = None
         THEN Bind(get_device_count(s1), LAMBDA s2 :
                Bind(get_device_count(s2), LAMBDA s3 : {Ret(s3, FALSE)}))
         ELSE {Ret([s1 EXCEPT !.sc.device_handle = s1.ret.r], TRUE)})

close_device(st) ==
  IF st.sc.lib = None \/ st.sc.device_handle = None THEN {Ret(st, None)}
  ELSE Bind(ZKFPM_CloseDevice(st, st.sc.device_handle), LAMBDA s1 :
         {Ret([s1 EXCEPT !.sc.device_handle = None], None)})

\* faulty variant: the guard forgets the initialized flag
terminate_uninitialized(st) ==
  IF st.sc.lib = None THEN {Ret(st, None)}
  ELSE LET freed ==
             IF st.sc.db_handle # None
             THEN Bind(ZKFPM_DBFree(st, st.sc.db_handle), LAMBDA s1 :
                    {[s1 EXCEPT !.sc.db_handle = None]})
             ELSE {st}
       IN  Bind(freed, LAMBDA s2 :
             Bind(ZKFPM_Terminate(s2), LAMBDA s3 :
               {Ret([s3 EXCEPT !.sc.is_initialized = FALSE], None)}))

\* faulty variant: the initialized flag is not cleared
terminate_keeps_flag(st) ==
  IF st.sc.lib = None \/ ~st.sc.is_initialized THEN {Ret(st, None)}
  ELSE LET freed ==
             IF st.sc.db_handle # None
             THEN Bind(ZKFPM_DBFree(st, st.sc.db_handle), LAMBDA s1 :
                    {[s1 EXCEPT !.sc.db_handle = None]})
             ELSE {st}
       IN  Bind(freed, LAMBDA s2 :
             Bind(ZKFPM_Terminate(s2), LAMBDA s3 : {Ret(s3, None)}))

terminate(st) ==
  IF st.sc.lib = None \/ ~st.sc.is_initialized THEN {Ret(st, None)}
  ELSE LET freed ==
             IF st.sc.db_handle # None
             THEN Bind(ZKFPM_DBFree(st, st.sc.db_handle), LAMBDA s1 :
                    {[s1 EXCEPT !.sc.db_handle = None]})
             ELSE {st}
       IN  Bind(freed, LAMBDA s2 :
             Bind(ZKFPM_Terminate(s2), LAMBDA s3 :
               {Ret([s3 EXCEPT !.sc.is_initialized = FALSE], None)}))

\* faulty variant: the template is as long as the vendor-reported length
capture_fingerprint_untruncated(st) ==
  IF st.sc.lib = None \/ st.sc.device_handle = None
  THEN {Ret(st, [none |-> TRUE, template |-> 0, quality |-> 0])}
  ELSE Bind(ZKFPM_AcquireFingerprint(st, st.sc.device_handle), LAMBDA s1 :
         IF s1.ret.r # ZKFP_ERR_OK
         THEN {Ret(s1, [none |-> TRUE, template |-> 0, quality |-> 0])}
         ELSE {Ret(s1, [none |-> FALSE,
                        template |-> s1.ret.out,
                        quality |-> QualityEstimate])})

\* returns (template, quality) or None; template_buf.raw[:actual_len]
NoCapture == [none |-> TRUE, template |-> 0, quality |-> 0]

capture_fingerprint(st) ==
  IF st.sc.lib = None \/ st.sc.device_handle = None THEN {Ret(st, NoCapture)}
  ELSE Bind(ZKFPM_AcquireFingerprint(st, st.sc.device_handle), LAMBDA s1 :
         IF s1.ret.r # ZKFP_ERR_OK THEN {Ret(s1, NoCapture)}
         ELSE {Ret(s1, [none |-> FALSE,
                        template |-> Min(s1.ret.out, max_template_size),
                        quality |-> QualityEstimate])})

\* faulty variant: a failed capture is skipped and the loop goes on
RECURSIVE enroll_samples_skips_failure(_, _, _, _)
enroll_samples_skips_failure(st, i, num_samples, samples) ==
  IF i >= num_samples THEN {Ret(st, [failed |-> FALSE, samples |-> samples])}
  ELSE Bind(capture_fingerprint(st), LAMBDA s1 :
         enroll_samples_skips_failure(s1, i + 1, num_samples,
           IF s1.ret.none THEN samples ELSE Append(samples, s1.ret.template)))

\* the capture loop of enroll_fingerprint: ret is the list of samples so
\* far and whether a capture failed (the method then returns None)
RECURSIVE enroll_samples(_, _, _, _)
enroll_samples(st, i, num_samples, samples) ==
  IF i >= num_samples THEN {Ret(st, [failed |-> FALSE, samples |-> samples])}
  ELSE Bind(capture_fingerprint(st), LAMBDA s1 :
         IF s1.ret.none
         THEN {Ret(s1, [failed |-> TRUE, samples |-> samples])}
         ELSE enroll_samples(s1, i + 1, num_samples,
                             Append(samples, s1.ret.template)))

\* returns the merged template (bytes) or None
NoTemplate == [none |-> TRUE, template |-> 0]

enroll_fingerprint(st, num_samples) ==
  Bind(enroll_samples(st, 0, num_samples, <<>>), LAMBDA s1 :
    IF s1.ret.failed THEN {Ret(s1, NoTemplate)}
    ELSE IF Len(s1.ret.samples) < MinSamples THEN {Ret(s1, NoTemplate)}
    ELSE LET samples == s1.ret.samples
         IN  Bind(ZKFPM_GenRegTemplate(s1, s1.sc.db_handle,
                                       samples[1], samples[2], samples[3]),
               LAMBDA s2 :
                 IF s2.ret.r # ZKFP_ERR_OK THEN {Ret(s2, NoTemplate)}
                 ELSE {Ret(s2, [none |-> FALSE,
                                template |-> Min(s2.ret.out, max_template_size)])}))

\* returns {'match': bool, 'similarity': score} or None
NoVerdict == [none |-> TRUE, match |-> FALSE, similarity |-> 0]

\* faulty variant: the threshold is exclusive
verify_fingerprint_exclusive(st, stored_template) ==
  Bind(capture_fingerprint(st), LAMBDA s1 :
    IF s1.ret.none THEN {Ret(s1, NoVerdict)}
    ELSE Bind(ZKFPM_DBMatch(s1, s1.sc.db_handle, stored_template,
                            s1.ret.template),
           LAMBDA s2 :
             IF s2.ret.r < 0 THEN {Ret(s2, NoVerdict)}
             ELSE {Ret(s2, [none |-> FALSE,
                            match |-> (s2.ret.r > MatchThreshold),
                            similarity |-> s2.ret.r])}))

verify_fingerprint(st, stored_template) ==
  Bind(capture_fingerprint(st), LAMBDA s1 :
    IF s1.ret.none THEN {Ret(s1, NoVerdict)}
    ELSE Bind(ZKFPM_DBMatch(s1, s1.sc.db_handle, stored_template,
                            s1.ret.template),
           LAMBDA s2 :
             IF s2.ret.r < 0 THEN {Ret(s2, NoVerdict)}
             ELSE {Ret(s2, [none |-> FALSE,
                            match |-> (s2.ret.r >= MatchThreshold),
                            similarity |-> s2.ret.r])}))

----------------------------------------------------------------------------
(* base64, as far as lengths go.  A string is a sequence of symbols: "d" a  *)
(* character of the base64 alphabet, "=" the pad, "x" any other character. *)

B64Symbols == {"d", "=", "x"}

\* binascii.a2b_base64 in its default (non-strict) mode: the number of bytes
\* decoded, or -1 for binascii.Error
RECURSIVE a2b_base64(_, _, _, _, _)
a2b_base64(s, i, quad_pos, pads, n) ==
  IF i > Len(s) THEN (IF quad_pos # 0 THEN -1 ELSE n)
  ELSE IF s[i] = "=" THEN
         IF quad_pos >= 2 /\ quad_pos + pads + 1 >= 4 THEN n
         ELSE a2b_base64(s, i + 1, quad_pos,
                         IF quad_pos >= 2 THEN pads + 1 ELSE pads, n)
  ELSE IF s[i] = "x" THEN a2b_base64(s, i + 1, quad_pos, pads, n)
  ELSE IF quad_pos = 0 THEN a2b_base64(s, i + 1, 1, 0, n)
  ELSE a2b_base64(s, i + 1, (quad_pos + 1) % 4, 0, n + 1)

\* base64.b64decode(v) for the value v of payload.get('template', '')
b64decode(v) ==
  IF ~v.isstr THEN [raised |-> TRUE, exc |-> "TypeError", bytes |-> 0]
  ELSE LET n == a2b_base64(v.s, 1, 0, 0, 0)
       IN  IF n < 0 THEN [raised |-> TRUE, exc |-> "binascii.Error", bytes |-> 0]
           ELSE [raised |-> FALSE, exc |-> "", bytes |-> n]

\* base64.b64encode(template).decode(): the number of characters
b64encode(n) == 4 * ((n + 2) \div 3)

\* payload.get('template', '')
payload_get_template(payload) ==
  IF payload.has THEN [isstr |-> payload.isstr, s |-> payload.s]
  ELSE [isstr |-> TRUE, s |-> <<>>]

----------------------------------------------------------------------------
(* handle_request                                                          *)

\* a Python str is the sequence of its fragments; NoneStr is None
Str(msg) == [none |-> FALSE, msg |-> msg]
NoneStr == [none |-> TRUE, msg |-> <<>>]

\* a result mapping: the keys present and their values (a key that is absent
\* keeps the filler value below)
EmptyDict ==
  [keys |-> {}, success |-> FALSE, error |-> NoneStr, device_count |-> 0,
   template |-> 0, quality |-> 0, match |-> FALSE, similarity |-> 0]

Returned(val) == [returned |-> TRUE, exc |-> "", val |-> val]
Raised(exc) == [returned |-> FALSE, exc |-> exc, val |-> EmptyDict]

\* faulty variant: the device is opened only when a device was counted
lifecycle_checks_count(st) ==
  Bind(init(st), LAMBDA s1 :
    Bind(get_device_count(s1), LAMBDA s2 :
      IF s2.ret > 0 THEN open_device(s2, 0) ELSE {Ret(s2, FALSE)}))

\* the three lifecycle calls that open the capture, enroll and verify branches
lifecycle(st) ==
  Bind(init(st), LAMBDA s1 :
    Bind(get_device_count(s1), LAMBDA s2 : open_device(s2, 0)))

init_branch(st) ==
  Bind(init(st), LAMBDA s1 :
    LET success == s1.ret
    IN  Bind(IF success THEN get_device_count(s1) ELSE {Ret(s1, 0)}, LAMBDA s2 :
          LET device_count == s2.ret
          IN  Bind(IF device_count > 0 THEN open_device(s2, 0)
                   ELSE {Ret(s2, FALSE)}, LAMBDA s3 :
                LET opened == s3.ret
                IN  {Ret(s3, Returned(
                       [EmptyDict EXCEPT
                          !.keys = {"success", "device_count", "error"},
                          !.success = (success /\ device_count > 0 /\ opened),
                          !.device_count = device_count,
                          !.error = IF success THEN NoneStr
                                    ELSE Str(<<"Failed to initialize SDK">>)]))})))

capture_branch(st) ==
  Bind(lifecycle(st), LAMBDA s1 :
    Bind(capture_fingerprint(s1), LAMBDA s2 :
      IF ~s2.ret.none
      THEN {Ret(s2, Returned(
              [EmptyDict EXCEPT !.keys = {"success", "template", "quality"},
                                !.success = TRUE,
                                !.template = b64encode(s2.ret.template),
                                !.quality = s2.ret.quality]))}
      ELSE {Ret(s2, Returned(
              [EmptyDict EXCEPT !.keys = {"success", "error"},
                                !.success = FALSE,
                                !.error = Str(<<"Capture failed">>)]))}))

\* "if template:" is false for None and for an empty bytes object
enroll_branch(st) ==
  Bind(lifecycle(st), LAMBDA s1 :
    Bind(enroll_fingerprint(s1, 3), LAMBDA s2 :
      IF ~s2.ret.none /\ s2.ret.template > 0
      THEN {Ret(s2, Returned(
              [EmptyDict EXCEPT !.keys = {"success", "template"},
                                !.success = TRUE,
                                !.template = b64encode(s2.ret.template)]))}
      ELSE {Ret(s2, Returned(
              [EmptyDict EXCEPT !.keys = {"success", "error"},
                                !.success = FALSE,
                                !.error = Str(<<"Enrollment failed">>)]))}))

\* base64.b64decode is outside any try block of the branch
verify_branch(st, payload) ==
  Bind(lifecycle(st), LAMBDA s1 :
    LET stored == b64decode(payload_get_template(payload))
    IN  IF stored.raised THEN {Ret(s1, Raised(stored.exc))}
        ELSE Bind(verify_fingerprint(s1, stored.bytes), LAMBDA s2 :
               IF ~s2.ret.none
               THEN {Ret(s2, Returned(
                       [EmptyDict EXCEPT
                          !.keys = {"success", "match", "similarity"},
                          !.success = TRUE,
                          !.match = s2.ret.match,
                          !.similarity = s2.ret.similarity]))}
               ELSE {Ret(s2, Returned(
                       [EmptyDict EXCEPT
                          !.keys = {"success", "error"},
                          !.success = FALSE,
                          !.error = Str(<<"Verification failed">>)]))}))

unknown_branch(st, request_type) ==
  {Ret(st, Returned(
     [EmptyDict EXCEPT !.keys = {"success", "error"},
                       !.success = FALSE,
                       !.error = Str(<<"Unknown request type: ", request_type>>)]))}

\* the finally clause: runs after a return and after an exception alike,
\* and leaves the outcome of the try block in place
finally_terminate(st) == {Ret(s, st.ret) : s \in terminate(st)}

\* st.sc is the scanner constructed on entry
handle_request(st, request_type, payload) ==
  Bind(CASE request_type = "init" -> init_branch(st)
         [] request_type = "capture" -> capture_branch(st)
         [] request_type = "enroll" -> enroll_branch(st)
         [] request_type = "verify" -> verify_branch(st, payload)
         [] OTHER -> unknown_branch(st, request_type),
       finally_terminate)

----------------------------------------------------------------------------
(* The state machines                                                      *)

\* file systems: no library anywhere; the library at the first candidate;
\* a wrong DLL at the first candidate and the library on the system PATH
DllScenarios ==
  { [i \in 1..Len(search_paths) |-> "oserr"],
    [i \in 1..Len(search_paths) |-> IF i = 1 THEN "ok" ELSE "oserr"],
    [i \in 1..Len(search_paths) |->
       IF i = 1 THEN "nosym" ELSE IF i = 3 THEN "ok" ELSE "oserr"] }

Tags == {"init", "capture", "enroll", "verify", "status", "INIT"}
SupportedTags == {"init", "capture", "enroll", "verify"}

B64Strings == UNION {[1..n -> B64Symbols] : n \in 0..MaxB64Len}

\* payloads: no 'template' key, a 'template' that is not a string (null, a
\* number), and a 'template' string
NoTemplateKey == [has |-> FALSE, isstr |-> FALSE, s |-> <<>>]
Payloads ==
  {NoTemplateKey, [has |-> TRUE, isstr |-> FALSE, s |-> <<>>]}
  \cup {[has |-> TRUE, isstr |-> TRUE, s |-> s] : s \in B64Strings}

\* the payload is read by the verify branch only
PayloadsOf(tag) ==
  IF tag = "verify" THEN Payloads
  ELSE {NoTemplateKey, [has |-> TRUE, isstr |-> TRUE, s |-> <<"d", "d", "=", "=">>]}

\* prev: the operation before this one and the number of vendor calls it made
NoOp ==
  [name |-> "__init__", tag |-> "", payload |-> NoTemplateKey, arg |-> 0,
   prev |-> [name |-> "", ncalls |-> 0]]

\* the state once the scanner is constructed on file system dll
Constructed ==
  /\ probed = _load_library(dll).probed
  /\ scanner = NewScanner(dll)
  /\ vendor = [sdk |-> FALSE, dbs |-> {}, devs |-> {}, nh |-> 0]
  /\ calls = <<>>
  /\ result = Returned(None)
  /\ op = NoOp
  /\ nops = 0

Init == dll \in DllScenarios /\ Constructed

\* the threaded state at the start of an operation on scanner sc
Enter(sc) == [sc |-> sc, vn |-> vendor, calls |-> <<>>, ret |-> None]

Leave(s, res, o) ==
  /\ scanner' = s.sc
  /\ vendor' = s.vn
  /\ calls' = s.calls
  /\ result' = res
  /\ op' = [o EXCEPT !.prev = [name |-> op.name, ncalls |-> Len(calls)]]
  /\ nops' = nops + 1
  /\ UNCHANGED <<dll, probed>>

\* one request: handle_request constructs its own scanner
HandleRequest ==
  /\ op.name = "__init__"
  /\ nops < MaxRequests
  /\ \E tag \in Tags : \E payload \in PayloadsOf(tag) :
       \E s \in handle_request(Enter(NewScanner(dll)), tag, payload) :
         Leave(s, s.ret, [NoOp EXCEPT !.name = "handle_request",
                                      !.tag = tag, !.payload = payload])

\* the caller takes the result (the CLI prints it); the scanner, local to
\* handle_request, is gone, and the next request will construct a new one
Respond ==
  /\ op.name = "handle_request"
  /\ scanner' = NewScanner(dll)
  /\ calls' = <<>>
  /\ result' = Returned(None)
  /\ op' = NoOp
  /\ UNCHANGED <<dll, probed, vendor, nops>>

Next == HandleRequest \/ Respond

Spec == Init /\ [][Next]_vars

\* public methods called in any order on the one scanner built at start
Method(name, arg, outcomes) ==
  /\ nops < MaxOps
  /\ \E s \in outcomes :
       Leave(s, Returned(s.ret), [NoOp EXCEPT !.name = name, !.arg = arg])

DoInit == Method("init", 0, init(Enter(scanner)))
DoGetDeviceCount == Method("get_device_count", 0, get_device_count(Enter(scanner)))
DoOpenDevice == \E i \in {0, 1} : Method("open_device", i, open_device(Enter(scanner), i))
DoCloseDevice == Method("close_device", 0, close_device(Enter(scanner)))
DoTerminate == Method("terminate", 0, terminate(Enter(scanner)))
DoCapture == Method("capture_fingerprint", 0, capture_fingerprint(Enter(scanner)))
DoEnroll ==
  \E n \in {2, 3} : Method("enroll_fingerprint", n, enroll_fingerprint(Enter(scanner), n))
DoVerify ==
  \E n \in {0, 7} : Method("verify_fingerprint", n, verify_fingerprint(Enter(scanner), n))

NextAPI ==
  \/ DoInit
  \/ DoGetDeviceCount
  \/ DoOpenDevice
  \/ DoCloseDevice
  \/ DoTerminate
  \/ DoCapture
  \/ DoEnroll
  \/ DoVerify

SpecAPI == Init /\ [][NextAPI]_vars

\* the same methods on a scanner constructed on any file system
MaxLoadOps == 2

InitLoad == dll \in [1..Len(search_paths) -> LoadOutcomes] /\ Constructed

NextLoad ==
  \/ nops < MaxLoadOps /\ DoInit
  \/ nops < MaxLoadOps /\ DoGetDeviceCount
  \/ nops < MaxLoadOps /\ DoOpenDevice
  \/ nops < MaxLoadOps /\ DoCloseDevice
  \/ nops < MaxLoadOps /\ DoTerminate
  \/ nops < MaxLoadOps /\ DoCapture
  \/ nops < MaxLoadOps /\ DoEnroll
  \/ nops < MaxLoadOps /\ DoVerify

SpecLoad == InitLoad /\ [][NextLoad]_vars

----------------------------------------------------------------------------
(* Reading the vendor call log of the last operation                       *)

IsRequest == op.name = "handle_request"
CallIdx == 1..Len(calls)
Of(f) == {i \in CallIdx : calls[i].f = f}
AcquireOK == {i \in Of("ZKFPM_AcquireFingerprint") : calls[i].r = ZKFP_ERR_OK}
VendorFunctions ==
  {"ZKFPM_Init", "ZKFPM_DBInit", "ZKFPM_GetDeviceCount", "ZKFPM_OpenDevice",
   "ZKFPM_AcquireFingerprint", "ZKFPM_GenRegTemplate", "ZKFPM_DBMatch",
   "ZKFPM_CloseDevice", "ZKFPM_DBFree", "ZKFPM_Terminate"}

\* C1: when handle_request returns, every device handle ZKFPM_OpenDevice
\* returned non-null during the request has been passed to ZKFPM_CloseDevice
C1_DeviceClosedOnReturn ==
  IsRequest =>
    \A i \in Of("ZKFPM_OpenDevice") :
      calls[i].r # None =>
        \E j \in Of("ZKFPM_CloseDevice") : j > i /\ calls[j].a = <<calls[i].r>>

\* C2: whenever ZKFPM_Init returned 0 during a request, ZKFPM_Terminate is
\* called later in that request, before handle_request returns
C2_TerminateAfterInit ==
  IsRequest =>
    \A i \in Of("ZKFPM_Init") :
      calls[i].r = ZKFP_ERR_OK => \E j \in Of("ZKFPM_Terminate") : j > i

\* C3: for every supported tag, payload and vendor outcome, handle_request
\* returns (no exception escapes) a mapping with a boolean 'success' field
C3_AlwaysStructuredResult ==
  (IsRequest /\ op.tag \in SupportedTags) =>
    /\ result.returned
    /\ "success" \in result.val.keys
    /\ result.val.success \in BOOLEAN

\* C4: every result with success = false carries a non-null 'error' string
C4_FailureHasError ==
  (IsRequest /\ result.returned /\ ~result.val.success) =>
    /\ "error" \in result.val.keys
    /\ ~result.val.error.none

\* C5: within a request, ZKFPM_GetDeviceCount and ZKFPM_OpenDevice are called
\* only after ZKFPM_Init returned 0 and ZKFPM_DBInit returned a non-null
\* handle in that request; with no library resolved neither is called
C5_CountAndOpenOnlyAfterInit ==
  IsRequest =>
    /\ \A i \in Of("ZKFPM_GetDeviceCount") \cup Of("ZKFPM_OpenDevice") :
         \E j \in Of("ZKFPM_Init"), k \in Of("ZKFPM_DBInit") :
           /\ j < k /\ k < i
           /\ calls[j].r = ZKFP_ERR_OK
           /\ calls[k].r # None
    /\ scanner.lib = None =>
         Of("ZKFPM_GetDeviceCount") \cup Of("ZKFPM_OpenDevice") = {}

\* a request that queried the device count and opened the device
C5_Witness ==
  /\ IsRequest
  /\ Of("ZKFPM_GetDeviceCount") # {}
  /\ Of("ZKFPM_OpenDevice") # {}

\* C6: in every state reached by public method calls, a live vendor database
\* handle implies a live SDK context; ZKFPM_DBInit is called only after
\* ZKFPM_Init succeeded, and ZKFPM_DBFree is called before ZKFPM_Terminate
C6_DatabaseWithinSdk ==
  /\ vendor.dbs # {} => vendor.sdk
  /\ \A k \in Of("ZKFPM_DBInit") :
       \E j \in Of("ZKFPM_Init") : j < k /\ calls[j].r = ZKFP_ERR_OK
  /\ \A i \in Of("ZKFPM_Terminate") : \A j \in Of("ZKFPM_DBFree") : j < i

\* C7: an enroll request reports success only after 3 successful captures
\* followed by a successful ZKFPM_GenRegTemplate; a failed capture is the last
\* ZKFPM_AcquireFingerprint call of the request, no ZKFPM_GenRegTemplate call
\* follows it, and the result is failure; from any scanner state,
\* enroll_fingerprint(n) with n < 3 returns None without ZKFPM_GenRegTemplate
C7_EnrollNeedsThreeSamples ==
  /\ (IsRequest /\ op.tag = "enroll") =>
       LET acq == Of("ZKFPM_AcquireFingerprint")
           gen == Of("ZKFPM_GenRegTemplate")
       IN  /\ result.returned
           /\ Cardinality(acq) <= 3
           /\ result.val.success =>
                /\ Cardinality(AcquireOK) = 3
                /\ acq = AcquireOK
                /\ Cardinality(gen) = 1
                /\ \A g \in gen :
                     /\ calls[g].r = ZKFP_ERR_OK
                     /\ \A i \in acq : i < g
           /\ \A i \in acq \ AcquireOK :
                /\ ~result.val.success
                /\ gen = {}
                /\ \A j \in acq : j <= i
           /\ \A g \in gen : Cardinality({i \in AcquireOK : i < g}) = 3
  /\ \A n \in 0..2 :
       \A s \in enroll_fingerprint(Enter(scanner), n) :
         /\ s.ret.none
         /\ \A i \in 1..Len(s.calls) : s.calls[i].f # "ZKFPM_GenRegTemplate"

\* an enroll request that succeeded
C7_Witness ==
  /\ IsRequest /\ op.tag = "enroll"
  /\ result.returned /\ result.val.success
  /\ Of("ZKFPM_GenRegTemplate") # {}

\* C8: in a verify request whose capture succeeded, the value s returned by
\* ZKFPM_DBMatch decides the result: s >= 60 gives success, match, similarity
\* s; 0 <= s < 60 gives success, no match, similarity s; s < 0 gives failure
\* without a match field.  ZKFPM_DBMatch is called at most once per request
\* and only after a successful capture
C8_VerifyThreshold ==
  IsRequest =>
    LET m == Of("ZKFPM_DBMatch")
    IN  /\ Cardinality(m) <= 1
        /\ \A i \in m : \E j \in AcquireOK : j < i
        /\ (op.tag = "verify" /\ AcquireOK # {}) =>
             /\ result.returned
             /\ Cardinality(m) = 1
             /\ \A i \in m :
                  LET s == calls[i].r
                  IN  /\ s >= 60 =>
                           /\ result.val.success
                           /\ "match" \in result.val.keys
                           /\ result.val.match
                           /\ result.val.similarity = s
                      /\ (0 <= s /\ s < 60) =>
                           /\ result.val.success
                           /\ "match" \in result.val.keys
                           /\ ~result.val.match
                           /\ result.val.similarity = s
                      /\ s < 0 =>
                           /\ ~result.val.success
                           /\ "match" \notin result.val.keys

\* a verify request in which the vendor scored the match exactly 60
C8_Witness ==
  /\ IsRequest /\ op.tag = "verify"
  /\ \E i \in Of("ZKFPM_DBMatch") : calls[i].r = 60
  /\ result.returned /\ result.val.match

\* C9: a request with an unknown tag returns success = false with an error
\* message containing the tag, and calls no vendor function at all
C9_UnknownTagNoVendorCall ==
  (IsRequest /\ op.tag \notin SupportedTags) =>
    /\ result.returned
    /\ ~result.val.success
    /\ "error" \in result.val.keys
    /\ ~result.val.error.none
    /\ \E k \in 1..Len(result.val.error.msg) : result.val.error.msg[k] = op.tag
    /\ \A i \in CallIdx : calls[i].f \notin VendorFunctions

\* an unknown tag handled with the vendor library loaded
C9_Witness ==
  /\ IsRequest /\ op.tag = "status"
  /\ scanner.lib # None
  /\ result.returned

C11_AtMostOneOpenDevice == Cardinality(vendor.devs) <= 1

\* C12: ZKFPM_AcquireFingerprint, ZKFPM_GenRegTemplate and ZKFPM_DBMatch are
\* invoked only on a scanner that is initialized and holds its database
\* handle; on any other scanner capture, enroll and verify return None and
\* invoke none of them (the three methods leave the scanner as it was)
C12_OperationsOnlyWhileInitialized ==
  op.name \in {"capture_fingerprint", "enroll_fingerprint", "verify_fingerprint"} =>
    LET work == Of("ZKFPM_AcquireFingerprint") \cup Of("ZKFPM_GenRegTemplate")
                  \cup Of("ZKFPM_DBMatch")
        ready == scanner.is_initialized /\ scanner.db_handle # None
    IN  /\ work # {} => ready
        /\ ~ready => (result.val.none /\ work = {})

\* the value each public method returns when it does nothing
ReturnsFailure ==
  CASE op.name = "init" -> result.val = FALSE
    [] op.name = "get_device_count" -> result.val = 0
    [] op.name = "open_device" -> result.val = FALSE
    [] op.name \in {"close_device", "terminate"} -> result.val = None
    [] OTHER -> result.val.none

\* C13: the constructor probes the candidates in order and binds the first
\* one that loads and exports ZKFPM_Init, skipping those that fail to load or
\* lack the symbol and probing none after the accepted one; when no candidate
\* qualifies the library reference is empty and every method returns its
\* failure value with no vendor call and no change of the scanner
C13_FirstVerifiedLibrary ==
  LET good == {i \in 1..Len(search_paths) : dll[i] = "ok"}
  IN  /\ good = {} => (scanner.lib = None /\ probed = Len(search_paths))
      /\ good # {} =>
           /\ scanner.lib \in good
           /\ \A j \in good : scanner.lib <= j
           /\ probed = scanner.lib
      /\ (scanner.lib = None /\ op.name # "__init__") =>
           /\ calls = <<>>
           /\ ReturnsFailure
           /\ scanner.device_handle = None
           /\ scanner.db_handle = None
           /\ ~scanner.is_initialized

\* a wrong DLL at the first candidate, the library at the second and another
\* copy at the third, and a method called on the scanner
C13_Witness ==
  /\ dll[1] = "nosym" /\ dll[2] = "ok" /\ dll[3] = "ok"
  /\ scanner.lib = 2
  /\ op.name = "init"

\* position in the log of the ZKFPM_DBInit call that completed the SDK
\* initialization of the request (empty when initialization did not succeed)
InitDone ==
  {k \in Of("ZKFPM_DBInit") :
     /\ calls[k].r # None
     /\ \E j \in Of("ZKFPM_Init") : j < k /\ calls[j].r = ZKFP_ERR_OK}

\* ZKFPM_AcquireFingerprint only after ZKFPM_OpenDevice(0) returned a handle
AcquireAfterOpen ==
  \A i \in Of("ZKFPM_AcquireFingerprint") :
    \E j \in Of("ZKFPM_OpenDevice") :
      j < i /\ calls[j].a = <<0>> /\ calls[j].r # None

\* C14 as claimed: for every supported tag, once SDK initialization succeeds
\* ZKFPM_GetDeviceCount is called and then ZKFPM_OpenDevice(0), whatever the
\* count reported, before any other vendor call; ZKFPM_AcquireFingerprint is
\* never called before ZKFPM_OpenDevice(0) returned a non-null handle
C14_SameLifecycleEveryTag ==
  (IsRequest /\ op.tag \in SupportedTags) =>
    /\ \A k \in InitDone :
         /\ k + 2 <= Len(calls)
         /\ calls[k + 1].f = "ZKFPM_GetDeviceCount"
         /\ calls[k + 2].f = "ZKFPM_OpenDevice"
         /\ calls[k + 2].a = <<0>>
    /\ AcquireAfterOpen

\* C14 amended: the capture, enroll and verify branches call
\* ZKFPM_GetDeviceCount and then ZKFPM_OpenDevice(0) whatever the count; the
\* init branch calls ZKFPM_GetDeviceCount and then ZKFPM_OpenDevice(0) only
\* when the count reported is greater than 0, and otherwise opens no device;
\* ZKFPM_AcquireFingerprint is never called before ZKFPM_OpenDevice(0)
\* returned a non-null handle
C14_LifecycleByTag ==
  (IsRequest /\ op.tag \in SupportedTags) =>
    /\ \A k \in InitDone :
         /\ k + 1 <= Len(calls)
         /\ calls[k + 1].f = "ZKFPM_GetDeviceCount"
         /\ (op.tag # "init" \/ calls[k + 1].r > 0) =>
              /\ k + 2 <= Len(calls)
              /\ calls[k + 2].f = "ZKFPM_OpenDevice"
              /\ calls[k + 2].a = <<0>>
         /\ (op.tag = "init" /\ calls[k + 1].r <= 0) =>
              Of("ZKFPM_OpenDevice") = {}
    /\ \A j \in Of("ZKFPM_OpenDevice") : calls[j].a = <<0>>
    /\ AcquireAfterOpen

\* a capture request that opened device 0 and captured although the vendor
\* reported no device
C14_Witness ==
  /\ IsRequest /\ op.tag = "capture"
  /\ \E k \in InitDone : calls[k + 1].r = 0
  /\ AcquireOK # {}

\* C15: when ZKFPM_DBInit returns a null handle after ZKFPM_Init succeeded,
\* the scanner is left uninitialized, the request makes no
\* ZKFPM_GetDeviceCount, ZKFPM_OpenDevice, ZKFPM_AcquireFingerprint,
\* ZKFPM_GenRegTemplate or ZKFPM_DBMatch call, and it returns success = false,
\* for every supported tag
C15_NullDatabaseFailsRequest ==
  (/\ IsRequest /\ op.tag \in SupportedTags
   /\ \E k \in Of("ZKFPM_DBInit") : calls[k].r = None) =>
    /\ ~scanner.is_initialized
    /\ \A i \in CallIdx :
         calls[i].f \notin {"ZKFPM_GetDeviceCount", "ZKFPM_OpenDevice",
                            "ZKFPM_AcquireFingerprint", "ZKFPM_GenRegTemplate",
                            "ZKFPM_DBMatch"}
    /\ result.returned
    /\ ~result.val.success

\* C16: capture_fingerprint with no device open returns None without calling
\* ZKFPM_AcquireFingerprint and leaves the scanner and the vendor state
\* unchanged; consequently a capture, enroll or verify request whose
\* ZKFPM_OpenDevice returned a null handle returns success = false with no
\* acquisition
C16_NoCaptureWithoutDevice ==
  /\ scanner.device_handle = None =>
       \A s \in capture_fingerprint(Enter(scanner)) :
         /\ s.ret = NoCapture
         /\ s.calls = <<>>
         /\ s.sc = scanner
         /\ s.vn = vendor
  /\ (/\ IsRequest /\ op.tag \in {"capture", "enroll", "verify"}
      /\ \E j \in Of("ZKFPM_OpenDevice") : calls[j].r = None) =>
       /\ Of("ZKFPM_AcquireFingerprint") = {}
       /\ result.returned
       /\ ~result.val.success

Truncated(L) == IF L <= 2048 THEN L ELSE 2048

\* C18: a template returned by capture_fingerprint or enroll_fingerprint is
\* min(L, 2048) bytes long, L being the length that the method's last vendor
\* call (ZKFPM_AcquireFingerprint, ZKFPM_GenRegTemplate) wrote to its
\* output-length parameter; so are the samples handed to ZKFPM_GenRegTemplate
C18_TemplateLength ==
  /\ (op.name = "capture_fingerprint" /\ ~result.val.none) =>
       /\ calls # <<>>
       /\ calls[Len(calls)].f = "ZKFPM_AcquireFingerprint"
       /\ calls[Len(calls)].r = ZKFP_ERR_OK
       /\ result.val.template = Truncated(calls[Len(calls)].out)
       /\ result.val.template <= 2048
  /\ (op.name = "enroll_fingerprint" /\ ~result.val.none) =>
       /\ Len(calls) = 4
       /\ calls[4].f = "ZKFPM_GenRegTemplate"
       /\ calls[4].r = ZKFP_ERR_OK
       /\ result.val.template = Truncated(calls[4].out)
       /\ result.val.template <= 2048
       /\ \A i \in 1..3 :
            /\ calls[i].f = "ZKFPM_AcquireFingerprint"
            /\ calls[4].a[i + 1] = Truncated(calls[i].out)

\* an enrollment whose merge reported 2049 bytes, from samples of which one
\* was reported 0 bytes long and one 2049
C18_Witness ==
  /\ op.name = "enroll_fingerprint"
  /\ ~result.val.none
  /\ calls[Len(calls)].out = 2049
  /\ result.val.template = 2048
  /\ \E i \in Of("ZKFPM_AcquireFingerprint") : calls[i].out = 0
  /\ \E i \in Of("ZKFPM_AcquireFingerprint") : calls[i].out = 2049
====
